---- MODULE Spec2Model ----
(***************************************************************************)
(* A model of script/native-tests.py: the loading of the tests config into *)
(* the TestsList registry, the `list` and `run` commands of main(), the    *)
(* validation and launch loops of TestsList.run, and the argument list and *)
(* stdout that TestBinary.run hands to subprocess.call.                    *)
(*                                                                         *)
(* Python values are modelled as follows.  A str is a TLA+ string, a list  *)
(* a sequence, a dict a function on its keys.  An optional value is None   *)
(* or Some(v).  A config entry is a tagged variant: a bare string or a     *)
(* single-key mapping.  The script is Python 2 (print statement,           *)
(* basestring, keys()[0]), where the iteration order of a dict is not the  *)
(* insertion order; the order is chosen when the dict is built.            *)
(***************************************************************************)
EXTENDS Integers, Sequences, FiniteSets, TLC

VARIABLES
  doc,              \* config_data['tests']: the sequence of entries of the config
  args,             \* the parsed command line (parse_args)
  pc,               \* position of main()
  tests,            \* TestsList.tests: binary name -> test data
  keyorder,         \* iteration order of the dict TestsList.tests
  exc,              \* the exception that ended main(), "" if none
  printed,          \* what the list command printed, one name per line
  binaries,         \* the `binaries` argument of TestsList.run
  idx,              \* position of the second loop of TestsList.run (1-based)
  suite_returncode, \* the accumulator of TestsList.run
  running,          \* the child processes that are alive
  launches,         \* every subprocess.call made so far, in order
  returncodes,      \* the exit codes of the children that exited, in order
  result,           \* the value main() returned (the process exit code)
  call              \* the arguments of a direct TestBinary.run call

vars == <<doc, args, pc, tests, keyorder, exc, printed, binaries, idx,
          suite_returncode, running, launches, returncodes, result, call>>

-----------------------------------------------------------------------------
(* Bounds of the model. *)

MaxDocLen == 2
MaxRunLen == 2
MaxExcluded == 2

-----------------------------------------------------------------------------
(* Python values. *)

None == [none |-> TRUE]
Some(v) == [val |-> v]

Names == {"a_tests", "b_tests"}
TestIds == {"X.Y", "Suite.A", "Suite.B"}
ExitCodes == {0, 1, 2}
TestsDirs == {"/t"}
OutputDirs == {"/out"}

SeqsUpTo(S, n) == UNION {[1..k -> S] : k \in 0..n}

EmptyDict == [k \in {} |-> None]

DictSet(d, k, v) == [x \in (DOMAIN d) \cup {k} |-> IF x = k THEN v ELSE d[x]]

Range(s) == {s[i] : i \in DOMAIN s}

Orderings(S) ==
  {s \in [1..Cardinality(S) -> S] : \A i, j \in DOMAIN s : s[i] = s[j] => i = j}

RECURSIVE SumSeq(_)
SumSeq(s) == IF s = <<>> THEN 0 ELSE s[1] + SumSeq(Tail(s))

-----------------------------------------------------------------------------
(* The config document. *)

StrItem(name) == [kind |-> "str", value |-> name]
DictItem(name, settings) == [kind |-> "dict", key |-> name, value |-> settings]

Settings ==
  {None, Some([platform |-> <<"linux">>]), Some([to_fix |-> <<"X.Y">>])}

DataItems ==
  {StrItem(n) : n \in Names} \cup {DictItem(n, s) : n \in Names, s \in Settings}

Docs == SeqsUpTo(DataItems, MaxDocLen)

-----------------------------------------------------------------------------
(* TestsList: loading. *)

ExpandShorthand(data) ==
  IF data.kind = "dict" THEN data ELSE DictItem(data.value, None)

DefaultTestData == [excluded_tests |-> None, platforms |-> None]

\* The pair (binary_name, test_data) of an entry, or the exception raised:
\* test_data is a dict, and line 157 assigns to an attribute of it.
GetTestData(data_item) ==
  LET item == ExpandShorthand(data_item)
      binary_name == item.key
      configs == item.value
  IN  IF configs # None /\ "to_fix" \in DOMAIN configs.val
      THEN [raised |-> TRUE, exc |-> "AttributeError"]
      ELSE [raised |-> FALSE, binary_name |-> binary_name,
            test_data |-> DefaultTestData]

RECURSIVE GetTestsListFrom(_, _)
GetTestsListFrom(tests_list, items) ==
  IF items = <<>> THEN [raised |-> FALSE, tests |-> tests_list]
  ELSE LET d == GetTestData(Head(items))
       IN  IF d.raised THEN [raised |-> TRUE, exc |-> d.exc]
           ELSE GetTestsListFrom(DictSet(tests_list, d.binary_name, d.test_data),
                                 Tail(items))

GetTestsList(config_tests) == GetTestsListFrom(EmptyDict, config_tests)

\* The orders in which a Python 2 dict with these keys may iterate.
DictOrders(d) == Orderings(DOMAIN d)

GetNames == keyorder

Reverse(s) == [i \in 1..Len(s) |-> s[Len(s) + 1 - i]]

\* run_all with the names in another order than get_names gives them
RunAllNamesReversed == Reverse(GetNames)

RunAllNames == GetNames

-----------------------------------------------------------------------------
(* TestsList.run and TestBinary.run. *)

\* os.path.join of a directory that os.path.abspath returned and a relative
\* name: abspath leaves a trailing separator on the roots only.
PathJoin(a, b) == IF a \in {"/", "//"} THEN a \o b ELSE a \o "/" \o b

RECURSIVE JoinFrom(_, _, _)
JoinFrom(sep, acc, rest) ==
  IF rest = <<>> THEN acc ELSE JoinFrom(sep, acc \o sep \o Head(rest), Tail(rest))

\* sep.join(strs)
Join(sep, strs) == IF strs = <<>> THEN "" ELSE JoinFrom(sep, Head(strs), Tail(strs))

\* the identifiers joined with the wrong separator
FormatExcludedTestsComma(excluded_tests) == "-" \o Join(",", excluded_tests)

FormatExcludedTests(excluded_tests) == "-" \o Join(":", excluded_tests)

GetOutputPath(binary_name, output_dir) ==
  IF output_dir = None THEN None
  ELSE Some(PathJoin(output_dir.val, "results_" \o binary_name \o ".xml"))

GtestFilter(excluded_tests) ==
  IF excluded_tests # None /\ Len(excluded_tests.val) > 0
  THEN "--gtest_filter=" \o FormatExcludedTests(excluded_tests.val)
  ELSE ""

GtestOutput(output_file_path) ==
  IF output_file_path # None
  THEN "--gtest_output=" \o "xml" \o ":" \o output_file_path.val
  ELSE ""

\* stdout never redirected
StdoutForInherit(output_file_path) == "inherit"

StdoutFor(output_file_path) ==
  IF output_file_path # None THEN "devnull" ELSE "inherit"

\* What TestBinary.run passes to subprocess.call.
TestBinaryCall(binary_path, excluded_tests, output_file_path) ==
  [args |-> <<binary_path, GtestFilter(excluded_tests),
              GtestOutput(output_file_path)>>,
   stdout |-> StdoutFor(output_file_path)]

\* What TestsList.__run passes to subprocess.call for a registered binary.
RunCall(binary_name, output_dir) ==
  TestBinaryCall(PathJoin(args.tests_dir, binary_name),
                 tests[binary_name].excluded_tests,
                 GetOutputPath(binary_name, output_dir))

\* a validation that looks at the first name only
UnknownFirstOnly(names) ==
  {i \in DOMAIN names : i = 1 /\ names[i] \notin DOMAIN tests}

\* The positions of `names` that the first loop of TestsList.run rejects.
UnknownBinaries(names) == {i \in DOMAIN names : names[i] \notin DOMAIN tests}

\* the suite code as the maximum of the exit codes
AccumulateMax(suite, test_returncode) ==
  IF test_returncode > suite THEN test_returncode ELSE suite

Accumulate(suite, test_returncode) == suite + test_returncode

-----------------------------------------------------------------------------
(* The command line. *)

Args ==
  {[command |-> "list", binary |-> None, tests_dir |-> t, output_dir |-> None] :
     t \in TestsDirs}
  \cup
  {[command |-> "run", binary |-> b, tests_dir |-> t, output_dir |-> o] :
     b \in {None} \cup {Some(s) : s \in SeqsUpTo(Names, MaxRunLen)},
     t \in TestsDirs,
     o \in {None} \cup {Some(d) : d \in OutputDirs}}

NoCall == [binary_path |-> "", excluded_tests |-> None, output_file_path |-> None]

Init ==
  /\ doc \in Docs
  /\ args \in Args
  /\ pc = "start"
  /\ tests = EmptyDict
  /\ keyorder = <<>>
  /\ exc = ""
  /\ printed = <<>>
  /\ binaries = <<>>
  /\ idx = 1
  /\ suite_returncode = 0
  /\ running = {}
  /\ launches = <<>>
  /\ returncodes = <<>>
  /\ result = None
  /\ call = NoCall

\* TestsList.__init__
Construct ==
  /\ pc = "start"
  /\ LET r == GetTestsList(doc)
     IN  IF r.raised
         THEN /\ pc' = "raised"
              /\ exc' = r.exc
              /\ UNCHANGED <<tests, keyorder>>
         ELSE /\ pc' = "loaded"
              /\ tests' = r.tests
              /\ keyorder' \in DictOrders(r.tests)
              /\ exc' = exc
  /\ UNCHANGED <<doc, args, printed, binaries, idx, suite_returncode, running,
                 launches, returncodes, result, call>>

\* main(), the list command
MainList ==
  /\ pc = "loaded"
  /\ args.command = "list"
  /\ printed' = GetNames
  /\ result' = Some(0)
  /\ pc' = "exited"
  /\ UNCHANGED <<doc, args, tests, keyorder, exc, binaries, idx,
                 suite_returncode, running, launches, returncodes, call>>

\* main(), the run command: TestsList.run or run_all up to the first launch
MainRun ==
  /\ pc = "loaded"
  /\ args.command = "run"
  /\ LET names == IF args.binary # None THEN args.binary.val ELSE RunAllNames
     IN  /\ binaries' = names
         /\ IF UnknownBinaries(names) # {}
            THEN /\ pc' = "raised"
                 /\ exc' = "Exception"
                 /\ UNCHANGED <<suite_returncode, result>>
            ELSE /\ suite_returncode' = 0
                 /\ exc' = exc
                 /\ IF names = <<>>
                    THEN pc' = "exited" /\ result' = Some(0)
                    ELSE pc' = "run_loop" /\ result' = result
  /\ idx' = 1
  /\ UNCHANGED <<doc, args, tests, keyorder, printed, running, launches,
                 returncodes, call>>

\* a launch that does not wait for the child (Popen without wait)
LaunchNoWait ==
  /\ pc = "run_loop"
  /\ idx <= Len(binaries)
  /\ binaries[idx] \in DOMAIN tests
  /\ LET c == RunCall(binaries[idx], args.output_dir)
         l == [name |-> binaries[idx], n |-> Len(launches) + 1,
               args |-> c.args, stdout |-> c.stdout, ok |-> TRUE]
     IN  /\ launches' = Append(launches, l)
         /\ running' = running \cup {l}
  /\ idx' = idx + 1
  /\ IF idx + 1 > Len(binaries)
     THEN pc' = "exited" /\ result' = Some(suite_returncode)
     ELSE pc' = "run_loop" /\ result' = result
  /\ UNCHANGED <<doc, args, tests, keyorder, exc, printed, binaries,
                 suite_returncode, returncodes, call>>

\* a launch whose failure is counted as a failed binary, the loop going on
LaunchContinueOnError ==
  /\ pc = "run_loop"
  /\ idx <= Len(binaries)
  /\ binaries[idx] \in DOMAIN tests
  /\ LET c == RunCall(binaries[idx], args.output_dir)
         l(ok) == [name |-> binaries[idx], n |-> Len(launches) + 1,
                   args |-> c.args, stdout |-> c.stdout, ok |-> ok]
     IN  \/ /\ launches' = Append(launches, l(TRUE))
            /\ running' = running \cup {l(TRUE)}
            /\ pc' = "waiting"
            /\ UNCHANGED <<idx, suite_returncode, returncodes, result>>
         \/ /\ launches' = Append(launches, l(FALSE))
            /\ running' = running
            /\ returncodes' = Append(returncodes, 1)
            /\ suite_returncode' = suite_returncode + 1
            /\ idx' = idx + 1
            /\ IF idx + 1 > Len(binaries)
               THEN pc' = "exited" /\ result' = Some(suite_returncode')
               ELSE pc' = "run_loop" /\ result' = result
  /\ UNCHANGED <<doc, args, tests, keyorder, exc, printed, binaries, call>>

\* TestsList.__run, TestBinary.run up to subprocess.call: the child starts,
\* or the launch fails with OSError and the exception leaves main().
Launch ==
  /\ pc = "run_loop"
  /\ idx <= Len(binaries)
  /\ LET binary_name == binaries[idx]
     IN  IF binary_name \notin DOMAIN tests
         THEN /\ pc' = "raised"
              /\ exc' = "KeyError"
              /\ UNCHANGED <<running, launches>>
         ELSE LET c == RunCall(binary_name, args.output_dir)
                  l(ok) == [name |-> binary_name, n |-> Len(launches) + 1,
                            args |-> c.args, stdout |-> c.stdout, ok |-> ok]
              IN  \/ /\ launches' = Append(launches, l(TRUE))
                     /\ running' = running \cup {l(TRUE)}
                     /\ pc' = "waiting"
                     /\ exc' = exc
                  \/ /\ launches' = Append(launches, l(FALSE))
                     /\ running' = running
                     /\ pc' = "raised"
                     /\ exc' = "OSError"
  /\ UNCHANGED <<doc, args, tests, keyorder, printed, binaries, idx,
                 suite_returncode, returncodes, result, call>>

\* subprocess.call returns: the child exited; the loop goes on or run returns
ChildExit ==
  /\ pc = "waiting"
  /\ \E child \in running, returncode \in ExitCodes :
       /\ running' = running \ {child}
       /\ returncodes' = Append(returncodes, returncode)
       /\ suite_returncode' = Accumulate(suite_returncode, returncode)
       /\ idx' = idx + 1
       /\ IF idx + 1 > Len(binaries)
          THEN pc' = "exited" /\ result' = Some(suite_returncode')
          ELSE pc' = "run_loop" /\ result' = result
  /\ UNCHANGED <<doc, args, tests, keyorder, exc, printed, binaries, launches,
                 call>>

Next == Construct \/ MainList \/ MainRun \/ Launch \/ ChildExit

Spec == Init /\ [][Next]_vars

-----------------------------------------------------------------------------
(* TestBinary.run called on its own, with any list of excluded tests. *)

BinaryCalls ==
  [binary_path : {PathJoin(t, n) : t \in TestsDirs, n \in Names},
   excluded_tests : {None} \cup {Some(s) : s \in SeqsUpTo(TestIds, MaxExcluded)},
   output_file_path :
     {GetOutputPath(n, o) : n \in Names, o \in {None} \cup {Some(d) : d \in OutputDirs}}]

InitBinary ==
  /\ doc = <<>>
  /\ args = [command |-> "run", binary |-> None, tests_dir |-> "/t",
             output_dir |-> None]
  /\ pc = "binary_call"
  /\ tests = EmptyDict
  /\ keyorder = <<>>
  /\ exc = ""
  /\ printed = <<>>
  /\ binaries = <<>>
  /\ idx = 1
  /\ suite_returncode = 0
  /\ running = {}
  /\ launches = <<>>
  /\ returncodes = <<>>
  /\ result = None
  /\ call \in BinaryCalls

\* TestBinary.run up to subprocess.call
BinaryRun ==
  /\ pc = "binary_call"
  /\ LET c == TestBinaryCall(call.binary_path, call.excluded_tests,
                             call.output_file_path)
         l(ok) == [name |-> call.binary_path, n |-> 1, args |-> c.args,
                   stdout |-> c.stdout, ok |-> ok]
     IN  \/ /\ launches' = <<l(TRUE)>>
            /\ running' = {l(TRUE)}
            /\ pc' = "waiting"
            /\ exc' = exc
         \/ /\ launches' = <<l(FALSE)>>
            /\ running' = running
            /\ pc' = "raised"
            /\ exc' = "OSError"
  /\ UNCHANGED <<doc, args, tests, keyorder, printed, binaries, idx,
                 suite_returncode, returncodes, result, call>>

\* subprocess.call returns and TestBinary.run returns its value
BinaryExit ==
  /\ pc = "waiting"
  /\ \E child \in running, returncode \in ExitCodes :
       /\ running' = running \ {child}
       /\ returncodes' = Append(returncodes, returncode)
       /\ result' = Some(returncode)
       /\ pc' = "exited"
  /\ UNCHANGED <<doc, args, tests, keyorder, exc, printed, binaries, idx,
                 suite_returncode, launches, call>>

NextBinary == BinaryRun \/ BinaryExit

SpecBinary == InitBinary /\ [][NextBinary]_vars

-----------------------------------------------------------------------------
(* Vocabulary of the properties: what the config document says, read       *)
(* without the loader.                                                     *)

KeyOf(item) == IF item.kind = "str" THEN item.value ELSE item.key

DocNames(d) == {KeyOf(d[i]) : i \in DOMAIN d}

RECURSIVE FirstSeenFrom(_, _)
FirstSeenFrom(acc, items) ==
  IF items = <<>> THEN acc
  ELSE FirstSeenFrom(IF KeyOf(Head(items)) \in Range(acc) THEN acc
                     ELSE Append(acc, KeyOf(Head(items))),
                     Tail(items))

\* the distinct names of the document in order of first appearance
FirstSeen(d) == FirstSeenFrom(<<>>, d)

\* the to_fix sequence an entry states, None if it states none
StatedToFix(item) ==
  IF item.kind = "dict" /\ item.value # None /\ "to_fix" \in DOMAIN item.value.val
  THEN Some(item.value.val.to_fix)
  ELSE None

LastEntry(d, name) ==
  d[CHOOSE i \in DOMAIN d :
      /\ KeyOf(d[i]) = name
      /\ \A j \in DOMAIN d : KeyOf(d[j]) = name => j <= i]

AllRegistered == \A i \in DOMAIN binaries : binaries[i] \in DOMAIN tests

LaunchedNames == [i \in DOMAIN launches |-> launches[i].name]

RECURSIVE ColonTail(_, _)
ColonTail(ids, i) ==
  IF i > Len(ids) THEN "" ELSE ":" \o ids[i] \o ColonTail(ids, i + 1)

-----------------------------------------------------------------------------
(* The properties. *)

\* C1: when a name requested from run is absent from the registry, at any
\* position of the list, run fails with an error and no child process is
\* ever launched.
C1_UnknownNameNoLaunch ==
  (/\ args.command = "run"
   /\ pc \in {"run_loop", "waiting", "exited", "raised"}
   /\ \E i \in DOMAIN binaries : binaries[i] \notin DOMAIN tests)
  => (/\ pc = "raised"
      /\ exc = "Exception"
      /\ launches = <<>>
      /\ running = {}
      /\ result = None)

\* C1 witness: run failed on a list whose first name is registered and whose
\* second is not.
C1_Witness ==
  /\ pc = "raised"
  /\ exc = "Exception"
  /\ Len(binaries) = 2
  /\ binaries[1] \in DOMAIN tests
  /\ binaries[2] \notin DOMAIN tests

\* C2: run returns the arithmetic sum of the exit codes of the binaries it
\* executed, one term per element of the list.
C2_SumOfExitCodes ==
  (args.command = "run" /\ pc = "exited")
  => (/\ Len(returncodes) = Len(binaries)
      /\ result = Some(SumSeq(returncodes)))

\* C2 witness: the same binary run twice, exiting 1 both times, gives 2.
C2_Witness ==
  /\ pc = "exited"
  /\ Len(binaries) = 2
  /\ binaries[1] = binaries[2]
  /\ returncodes = <<1, 1>>
  /\ result = Some(2)

\* C3: with all names registered, the children are launched once per list
\* element, in the order of the list, each only after the one before it
\* exited, and never two at a time.
C3_OneAtATimeInOrder ==
  (args.command = "run" /\ AllRegistered)
  => (/\ Cardinality(running) <= 1
      /\ Len(launches) <= Len(binaries)
      /\ \A i \in DOMAIN launches : launches[i].name = binaries[i]
      /\ Len(launches) <= Len(returncodes) + 1
      /\ (running # {} => Len(launches) = Len(returncodes) + 1)
      /\ (pc = "exited" => LaunchedNames = binaries))

\* C3 witness: the second child of a two-element list is running, the first
\* has exited.
C3_Witness ==
  /\ pc = "waiting"
  /\ Len(binaries) = 2
  /\ Len(launches) = 2
  /\ Len(returncodes) = 1
  /\ Cardinality(running) = 1

\* C4 (as claimed): a config with an entry {name: {to_fix: [...]}} loads, and
\* the registry holds the to_fix sequence as the excluded tests of that name.
C4_ToFixLoads ==
  (pc # "start" /\ \E i \in DOMAIN doc : StatedToFix(doc[i]) # None)
  => (/\ exc # "AttributeError"
      /\ \A n \in DocNames(doc) :
           /\ n \in DOMAIN tests
           /\ tests[n].excluded_tests = StatedToFix(LastEntry(doc, n)))

\* C5: for a non-empty list of excluded tests the filter argument is
\* --gtest_filter= followed by - and the identifiers joined with colons in
\* their order.
C5_FilterArgument ==
  (/\ launches # <<>>
   /\ call.excluded_tests # None
   /\ call.excluded_tests.val # <<>>)
  => LET ids == call.excluded_tests.val
         arg == launches[1].args[2]
     IN  /\ arg = "--gtest_filter=" \o "-" \o ids[1] \o ColonTail(ids, 2)
         /\ (ids = <<"Suite.A", "Suite.B">>
               => arg = "--gtest_filter=-Suite.A:Suite.B")
         /\ (ids = <<"X.Y">> => arg = "--gtest_filter=-X.Y")

\* C5 witness: Suite.A and Suite.B excluded, and the child launched.
C5_Witness ==
  /\ launches # <<>>
  /\ call.excluded_tests = Some(<<"Suite.A", "Suite.B">>)
  /\ launches[1].args[2] = "--gtest_filter=-Suite.A:Suite.B"

\* C6 (as claimed): the argument list holds the executable path and then
\* only the options that apply; with no exclusions and no output dir it is
\* the path alone.
C6_OnlyApplicableArguments ==
  \A i \in DOMAIN launches :
    LET l == launches[i]
        excluded == tests[l.name].excluded_tests
        filtered == excluded # None /\ excluded.val # <<>>
    IN  /\ Len(l.args) = 1 + (IF filtered THEN 1 ELSE 0)
                            + (IF args.output_dir # None THEN 1 ELSE 0)
        /\ \A j \in DOMAIN l.args : l.args[j] # ""

\* C7: the child's stdout is the null sink exactly when an output dir is
\* given; then the arguments hold
\* --gtest_output=xml:<output dir>/results_<name>.xml, and otherwise the
\* stdout is the script's own.
C7_StdoutAndOutputArgument ==
  \A i \in DOMAIN launches :
    LET l == launches[i]
    IN  /\ (l.stdout = "devnull") <=> (args.output_dir # None)
        /\ (args.output_dir # None) =>
             \E j \in DOMAIN l.args :
               l.args[j] = "--gtest_output=xml:" \o args.output_dir.val
                             \o "/results_" \o l.name \o ".xml"
        /\ (args.output_dir = None) => l.stdout = "inherit"

\* C7 witness: the second child of a run with an output dir, its stdout the
\* null sink.
C7_Witness ==
  /\ args.output_dir # None
  /\ Len(launches) = 2
  /\ launches[2].ok
  /\ launches[2].stdout = "devnull"

\* C8 (as claimed): every valid document loads; the registry holds exactly
\* the distinct names of the document, listed once each, and for a repeated
\* name the policy of its last entry.
C8_DistinctNamesLastWins ==
  (pc # "start")
  => (/\ exc # "AttributeError"
      /\ DOMAIN tests = DocNames(doc)
      /\ Range(GetNames) = DocNames(doc)
      /\ Len(GetNames) = Cardinality(DocNames(doc))
      /\ \A n \in DocNames(doc) :
           tests[n].excluded_tests = StatedToFix(LastEntry(doc, n)))

\* C9 (as claimed): the names are listed in order of first appearance in the
\* document, and run_all launches in that order.
C9_FirstSeenOrder ==
  /\ (args.command = "list" /\ pc = "exited") => printed = FirstSeen(doc)
  /\ (args.command = "run" /\ args.binary = None /\ pc = "exited")
       => LaunchedNames = FirstSeen(doc)

\* C9 (amended): the list command prints every distinct name of the document
\* once, in the iteration order of the registry, and run_all launches the
\* binaries in that same order.
C9_RegistryOrder ==
  /\ (args.command = "list" /\ pc = "exited")
       => (/\ printed = keyorder
           /\ Range(printed) = DocNames(doc)
           /\ Len(printed) = Cardinality(DocNames(doc)))
  /\ (args.command = "run" /\ args.binary = None
        /\ pc \in {"run_loop", "waiting", "exited"})
       => (/\ binaries = keyorder
           /\ \A i \in DOMAIN launches : launches[i].name = keyorder[i]
           /\ (pc = "exited" => LaunchedNames = keyorder))

\* C9 witness: run_all ran two binaries in the order of the registry, which
\* is not the order of first appearance.
C9_Witness ==
  /\ args.command = "run"
  /\ args.binary = None
  /\ pc = "exited"
  /\ Len(launches) = 2
  /\ LaunchedNames = keyorder
  /\ keyorder # FirstSeen(doc)

\* C10: a launch that fails ends run with the launch error: it is the last
\* launch attempted, run returns no sum, and the binaries before it in the
\* list have been executed.
C10_LaunchFailureAborts ==
  \A i \in DOMAIN launches :
    (~launches[i].ok)
    => (/\ i = Len(launches)
        /\ pc = "raised"
        /\ exc = "OSError"
        /\ result = None
        /\ running = {}
        /\ Len(returncodes) = i - 1
        /\ \A j \in 1..(i - 1) : launches[j].ok /\ launches[j].name = binaries[j])

\* C10 witness: the first binary of a two-element list failed to launch.
C10_Witness ==
  /\ pc = "raised"
  /\ exc = "OSError"
  /\ Len(binaries) = 2
  /\ Len(launches) = 1
  /\ ~launches[1].ok

====
